---- MODULE Spec2Model ----
(***************************************************************************)
(* State-machine model of eazyml_upload_extract_information.py: the three  *)
(* steps (eazyml_auth, eazyml_upload, eazyml_extract_information), flow,   *)
(* and the command-line entry point, over a file system of JSON files and  *)
(* an opaque remote service whose responses are nondeterministic inputs.   *)
(*                                                                         *)
(* Python values are written as strings: None is "None", the booleans are  *)
(* "True" and "False"; a dict is a function from its keys to its values,   *)
(* so that `"k" in d` is  "k" \in DOMAIN d.  A file holds JSON text, kept  *)
(* apart from the dict it encodes (see JsonDumps, JsonLoad).               *)
(*                                                                         *)
(* The remote client library is outside the repository.  Its responses     *)
(* follow the {success, message, ...} contract: a success carries its      *)
(* payload (token, indexed, answer), a failure carries message and may or  *)
(* may not carry the payload field.  Prefixes are words of plain           *)
(* characters, so the shell sees the cleanup pattern as written.           *)
(***************************************************************************)
EXTENDS Naturals, Sequences, FiniteSets, TLC

VARIABLES fs, last, prev, procs, writer

vars == <<fs, last, prev, procs, writer>>

\* ------------------------------------------------------------------ bounds

NumAnswers == 2
MaxRuns == 2

\* ---------------------------------------------------------- Python values

PyNone == "None"
PyTrue == "True"
PyFalse == "False"

\* None where a dict could stand (the second component of (None, None)).
NoneObj == [py |-> "None"]

\* `if v:` / `if not v:` for None, str and bool values.
Truthy(v) == v \notin {PyNone, PyFalse, ""}

\* The value of e, computed once where it is used several times.
Value(e) == CHOOSE v \in {e} : TRUE

Return(v) == [kind |-> "return", value |-> v]

Raise(e) == [kind |-> "raise", exc |-> e]

\* ------------------------------------------------------------------- files

AUTH_FILE == "authentication.json"
UPLOAD_FILE == "upload_document.json"
EXTRACT_FILE == "extract_information.json"

\* dump_file = prefix_name + "_" + UPLOAD_FILE   (and + EXTRACT_FILE)
DumpFile(prefix_name, step_file) == prefix_name \o "_" \o step_file

NoFiles == [f \in {} |-> {}]

WriteFile(files, name, text) ==
    [f \in DOMAIN files \cup {name} |-> IF f = name THEN text ELSE files[f]]

\* The shell pattern  <prefix>*.json  of the cleanup, for a prefix of plain
\* characters: the name starts with the prefix and what follows ends in .json .
GlobMatch(prefix_name, name) ==
    /\ Len(name) >= Len(prefix_name) + 5
    /\ SubSeq(name, 1, Len(prefix_name)) = prefix_name
    /\ SubSeq(name, Len(name) - 4, Len(name)) = ".json"

\* A cleanup that removes nothing.
RemoveJsonNothing(files, prefix_name) == files

\* os.system("rm -f " + prefix_name + "*.json")
RemoveJson(files, prefix_name) ==
    [f \in {g \in DOMAIN files : ~GlobMatch(prefix_name, g)} |-> files[f]]

\* ------------------------------------------------------------------- JSON

QuoteStr(s) == "\"" \o s \o "\""

\* One value as json.dumps writes it.
JsonLiteral(v) ==
    IF v = PyNone THEN "null"
    ELSE IF v = PyTrue THEN "true"
    ELSE IF v = PyFalse THEN "false"
    ELSE QuoteStr(v)

\* One JSON literal as json.load reads it.
JsonValue(t) ==
    IF t = "null" THEN PyNone
    ELSE IF t = "true" THEN PyTrue
    ELSE IF t = "false" THEN PyFalse
    ELSE SubSeq(t, 2, Len(t) - 1)

\* A dump that leaves out the payload fields.
JsonDumpsDropsPayload(obj) ==
    [k \in DOMAIN obj \ {"indexed", "answer"} |-> JsonLiteral(obj[k])]

\* A dump that leaves out the password.
JsonDumpsDropsPassword(obj) ==
    [k \in DOMAIN obj \ {"password"} |-> JsonLiteral(obj[k])]

\* json.dumps(obj, indent=4): the text of a flat dict, member by member.
JsonDumps(obj) == [k \in DOMAIN obj |-> JsonLiteral(obj[k])]

\* json.load(open(name)): the dict a text encodes.
JsonLoad(text) == [k \in DOMAIN text |-> JsonValue(text[k])]

\* open(name, "w") has truncated the file and nothing is written yet.
EmptyText == [k \in {} |-> ""]

\* ------------------------------------------------------ the remote service

Answers == {"ans" \o ToString(i) : i \in 1..NumAnswers}
Tokens == {"tok1"}

\* ez.ez_auth: {success, message} and, on success, the token.
AuthResponses ==
    {[success |-> PyTrue, message |-> "ok", token |-> t] : t \in Tokens}
    \cup {[success |-> PyFalse, message |-> "bad credentials"]}

\* ez.ez_config: {success, message}.
ConfigResponses ==
    {[success |-> PyTrue, message |-> "ok"],
     [success |-> PyFalse, message |-> "bad config"]}

\* ez.ez_upload_document: {success, message} and, on success, indexed; a
\* failure may or may not carry indexed.
UploadResponses ==
    {[success |-> PyTrue, message |-> "ok", indexed |-> b] : b \in {PyTrue, PyFalse}}
    \cup {[success |-> PyFalse, message |-> "upload failed"],
          [success |-> PyFalse, message |-> "upload failed", indexed |-> PyFalse]}

\* ez.ez_extract_information: {success, message} and, on success, the answer.
ExtractResponses ==
    {[success |-> PyTrue, message |-> "ok", answer |-> a] : a \in Answers}
    \cup {[success |-> PyFalse, message |-> "extraction failed"]}

\* No remote call is made, so no response is drawn.
NoResp == [success |-> PyNone]

\* --------------------------------------------------------------- arguments

ExistingDocs == {"doc.pdf", "other.pdf"}
DocPaths == {"doc.pdf", "missing.pdf"}
IndexNames == {"idx1", "idx2"}
Prefixes == {"EazyML", "Eazy"}
\* prefix_name = "EazyML" unless --prefix_name is given
CliPrefixes == {"EazyML"}
AuthPrefixes == {"auth", "EazyML"}
Overwrites == {"no", "yes"}
Queries == {"what?"}
ApiNames == {"extract_information", "other_api"}
Usernames == {"user", "user@example.com"}
ApiKeys == {"key1", "key2"}
Passwords == {"pw"}

\* A path check that accepts every path.
DocExistsAlways(document_path) == TRUE

\* os.path.exists(document_path)
DocExists(document_path) == document_path \in ExistingDocs

\* A cache check that never finds the file.
FileExistsNever(files, name) == FALSE

\* os.path.exists(dump_file), os.path.exists(AUTH_FILE)
FileExists(files, name) == name \in DOMAIN files

\* A success test that takes every response for a success.
IsSuccessAlways(resp) == TRUE

\* resp["success"] is True
IsSuccess(resp) == resp.success = PyTrue

\* What one call did: the files afterwards, how it ended (Return or Raise)
\* and the remote calls it made, in order.
Outcome(files, out, net) == [fs |-> files, out |-> out, net |-> net]

\* ----------------------------------------------------------- eazyml_upload

UploadCall(token, document_path, index_name, overwrite, resp) ==
    [api |-> "ez_upload_document", token |-> token,
     document_path |-> document_path, index_name |-> index_name,
     options |-> overwrite, success |-> resp.success]

\* eazyml_upload(token, document_path, index_name, overwrite, prefix_name),
\* resp being what ez.ez_upload_document answers if it is called.  The
\* module's global `query` read by the closing print is bound by the script
\* before flow runs.
EazymlUpload(files, token, document_path, index_name, overwrite, prefix_name, resp) ==
    LET dump_file == DumpFile(prefix_name, UPLOAD_FILE)
        net == <<UploadCall(token, document_path, index_name, overwrite, resp)>>
    IN  IF ~DocExists(document_path)
        THEN Outcome(files, Return(PyNone), <<>>)
        ELSE IF FileExists(files, dump_file)
        THEN LET cached == JsonLoad(files[dump_file])
             IN  IF "indexed" \in DOMAIN cached
                 THEN Outcome(files, Return(cached.indexed), <<>>)
                 ELSE Outcome(files, Raise("KeyError"), <<>>)
        ELSE IF IsSuccess(resp)
        THEN IF "indexed" \notin DOMAIN resp
             THEN Outcome(files, Raise("KeyError"), net)
             ELSE Outcome(WriteFile(files, dump_file, JsonDumps(resp)),
                          Return(resp.indexed), net)
        ELSE \* index = False, then print(... % resp["indexed"])
             IF "message" \notin DOMAIN resp \/ "indexed" \notin DOMAIN resp
             THEN Outcome(files, Raise("KeyError"), net)
             ELSE Outcome(files, Return(PyFalse), net)

\* ---------------------------------------------- eazyml_extract_information

ExtractCall(token, query, index_name, resp) ==
    [api |-> "ez_extract_information", token |-> token, query |-> query,
     index_name |-> index_name, success |-> resp.success]

\* eazyml_extract_information(token, api_name, query, index_name, prefix_name),
\* resp being what ez.ez_extract_information answers if it is called.
EazymlExtractInformation(files, token, api_name, query, index_name, prefix_name, resp) ==
    LET dump_file == DumpFile(prefix_name, EXTRACT_FILE)
        net == <<ExtractCall(token, query, index_name, resp)>>
    IN  IF api_name # "extract_information"
        THEN \* return answer, resp with neither assigned
             Outcome(files, Raise("UnboundLocalError"), <<>>)
        ELSE IF FileExists(files, dump_file)
        THEN LET cached == JsonLoad(files[dump_file])
             IN  IF "answer" \in DOMAIN cached
                 THEN Outcome(files, Return(<<cached.answer, cached>>), <<>>)
                 ELSE Outcome(files, Raise("UnboundLocalError"), <<>>)
        ELSE IF IsSuccess(resp)
        THEN LET written == WriteFile(files, dump_file, JsonDumps(resp))
             IN  IF "answer" \in DOMAIN resp
                 THEN Outcome(written, Return(<<resp.answer, resp>>), net)
                 ELSE Outcome(written, Raise("KeyError"), net)
        ELSE IF "message" \notin DOMAIN resp
             THEN Outcome(files, Raise("KeyError"), net)
             ELSE Outcome(files, Return(<<PyNone, NoneObj>>), net)

\* ------------------------------------------------------------- eazyml_auth

AuthCall(username, credential, resp) ==
    [api |-> "ez_auth", username |-> username, credential |-> credential,
     success |-> resp.success]

\* eazyml_auth(username, api_key, password, store_info), resp being what
\* ez.ez_auth answers.
EazymlAuth(files, username, api_key, password, store_info, resp) ==
    LET content == [username |-> username, api_key |-> api_key,
                    password |-> password]
        net == <<AuthCall(username,
                          IF password # PyNone THEN "password" ELSE "api_key",
                          resp)>>
    IN  IF IsSuccess(resp)
        THEN Outcome(IF store_info
                     THEN WriteFile(files, AUTH_FILE, JsonDumps(content))
                     ELSE files,
                     IF "token" \in DOMAIN resp
                     THEN Return(resp.token) ELSE Raise("KeyError"), net)
        ELSE Outcome(files, Return(PyNone), net)

\* -------------------------------------------------------------------- flow

ConfigCall(token, config_file, resp) ==
    [api |-> "ez_config", token |-> token, config_file |-> config_file,
     success |-> resp.success]

\* flow part-way: the files, the remote calls made so far, the token, and how
\* flow ended once it has ("" while it still runs).
FlowState(files, net, token, ended) ==
    [fs |-> files, net |-> net, token |-> token, ended |-> ended]

\* "Get Authentication token": with username and api_key, authenticate and
\* store them; otherwise authenticate from the auth file, or stop without one.
FlowAuth(files, a, resp) ==
    IF Truthy(a.username) /\ Truthy(a.api_key)
    THEN LET r == EazymlAuth(files, a.username, a.api_key, PyNone, TRUE, resp)
         IN  IF r.out.kind = "raise"
             THEN FlowState(r.fs, r.net, PyNone, "raise")
             ELSE FlowState(r.fs, r.net, r.out.value, "")
    ELSE IF FileExists(files, AUTH_FILE)
    THEN LET auth_info == JsonLoad(files[AUTH_FILE])
             r == EazymlAuth(files, auth_info.username, auth_info.api_key,
                             auth_info.password, FALSE, resp)
         IN  IF r.out.kind = "raise"
             THEN FlowState(r.fs, r.net, PyNone, "raise")
             ELSE FlowState(r.fs, r.net, r.out.value, "")
    ELSE FlowState(files, <<>>, PyNone, "return")

\* "Set config file"
FlowConfig(st, a, resp) ==
    IF st.ended # "" \/ ~Truthy(a.config_file)
    THEN st
    ELSE LET net == Append(st.net, ConfigCall(st.token, a.config_file, resp))
         IN  IF IsSuccess(resp)
             THEN FlowState(st.fs, net, st.token, "")
             ELSE FlowState(st.fs, net, st.token, "return")

\* "upload document"
FlowUpload(st, a, resp) ==
    IF st.ended # "" \/ ~Truthy(a.document_path)
    THEN st
    ELSE IF ~Truthy(a.index_name)
    THEN FlowState(st.fs, st.net, st.token, "return")
    ELSE LET r == EazymlUpload(st.fs, st.token, a.document_path, a.index_name,
                               a.overwrite, a.prefix_name, resp)
         IN  IF r.out.kind = "raise"
             THEN FlowState(r.fs, st.net \o r.net, st.token, "raise")
             ELSE IF ~Truthy(r.out.value)
             THEN FlowState(r.fs, st.net \o r.net, st.token, "return")
             ELSE FlowState(r.fs, st.net \o r.net, st.token, "")

\* "Extract Information": a missing query returns; a missing index_name is
\* reported and the extraction is called all the same.
FlowExtract(st, a, resp) ==
    IF st.ended # "" \/ ~Truthy(a.api_name)
    THEN st
    ELSE IF ~Truthy(a.query)
    THEN FlowState(st.fs, st.net, st.token, "return")
    ELSE LET r == EazymlExtractInformation(st.fs, st.token, a.api_name, a.query,
                                           a.index_name, a.prefix_name, resp)
         IN  FlowState(r.fs, st.net \o r.net, st.token,
                       IF r.out.kind = "raise" THEN "raise" ELSE "return")

\* flow(username, api_key, config_file, prefix_name, document_path,
\*      index_name, overwrite, api_name, query): a holds the arguments, resps
\* what each remote call answers if flow makes it.
Flow(files, a, resps) ==
    LET s1 == Value(FlowAuth(files, a, resps.auth))
        s2 == Value(FlowConfig(s1, a, resps.config))
        s3 == Value(FlowUpload(s2, a, resps.upload))
        st == Value(FlowExtract(s3, a, resps.extract))
    IN  FlowState(st.fs, st.net, st.token,
                  IF st.ended = "" THEN "return" ELSE st.ended)

\* The script: the options are parsed into a, the cleanup runs, then flow.
Main(files, a, resps) == Flow(RemoveJson(files, a.prefix_name), a, resps)

\* ------------------------------------------------- the functions, one call
\* each: `last` is the call just made (its arguments, the files before it,
\* the response drawn if the remote was called, how it ended), `prev` the
\* call before it when that one reached the remote and got a success.

NoCall == [op |-> "none"]

\* What the next call remembers of this one.
Remembered(call) ==
    IF /\ call.op \in {"eazyml_upload", "eazyml_extract_information"}
       /\ call.net # <<>>
       /\ call.resp.success = PyTrue
    THEN [op |-> call.op, prefix_name |-> call.prefix_name,
          resp |-> call.resp, out |-> call.out]
    ELSE NoCall

CallUpload ==
    \E token \in Tokens, document_path \in DocPaths, index_name \in IndexNames,
       overwrite \in Overwrites, prefix_name \in Prefixes, resp \in UploadResponses :
        \E r \in {EazymlUpload(fs, token, document_path, index_name, overwrite,
                               prefix_name, resp)} :
        LET call == [op |-> "eazyml_upload", token |-> token,
                     document_path |-> document_path, index_name |-> index_name,
                     overwrite |-> overwrite, prefix_name |-> prefix_name,
                     resp |-> IF r.net = <<>> THEN NoResp ELSE resp,
                     before |-> fs, out |-> r.out, net |-> r.net]
        IN  /\ fs' = r.fs
            /\ last' = call
            /\ prev' = Remembered(last)
            /\ UNCHANGED <<procs, writer>>

CallExtractInformation ==
    \E token \in Tokens, api_name \in ApiNames, query \in Queries,
       index_name \in IndexNames, prefix_name \in Prefixes,
       resp \in ExtractResponses :
        \E r \in {EazymlExtractInformation(fs, token, api_name, query,
                                           index_name, prefix_name, resp)} :
        LET call == [op |-> "eazyml_extract_information", token |-> token,
                     api_name |-> api_name, query |-> query,
                     index_name |-> index_name, prefix_name |-> prefix_name,
                     resp |-> IF r.net = <<>> THEN NoResp ELSE resp,
                     before |-> fs, out |-> r.out, net |-> r.net]
        IN  /\ fs' = r.fs
            /\ last' = call
            /\ prev' = Remembered(last)
            /\ UNCHANGED <<procs, writer>>

CallAuth ==
    \E username \in Usernames, api_key \in ApiKeys,
       password \in Passwords \cup {PyNone}, store_info \in BOOLEAN,
       resp \in AuthResponses :
        \E r \in {EazymlAuth(fs, username, api_key, password, store_info, resp)} :
        LET call == [op |-> "eazyml_auth", username |-> username,
                     api_key |-> api_key, password |-> password,
                     store_info |-> store_info, resp |-> resp,
                     before |-> fs, out |-> r.out, net |-> r.net]
        IN  /\ fs' = r.fs
            /\ last' = call
            /\ prev' = Remembered(last)
            /\ UNCHANGED <<procs, writer>>

\* The blanket cleanup, run on its own.
CallRemoveJson(prefixes) ==
    \E prefix_name \in prefixes :
        /\ fs' = RemoveJson(fs, prefix_name)
        /\ last' = [op |-> "rm", prefix_name |-> prefix_name, before |-> fs,
                    net |-> <<>>]
        /\ prev' = Remembered(last)
        /\ UNCHANGED <<procs, writer>>

Init ==
    /\ fs = NoFiles
    /\ last = [op |-> "init", net |-> <<>>]
    /\ prev = NoCall
    /\ procs = <<>>
    /\ writer = NoFiles

\* The two caching steps called in any order with any arguments.
Next == CallUpload \/ CallExtractInformation \/ CallRemoveJson(Prefixes)

Spec == Init /\ [][Next]_vars

\* The authenticator called with any arguments.
NextAuth == CallAuth \/ CallRemoveJson(AuthPrefixes)

SpecAuth == Init /\ [][NextAuth]_vars

\* --------------------------------------------------- runs of the script

\* The option values a run is given (None: the option is not given).
CliArgs ==
    [username : {PyNone, "user"}, api_key : {PyNone, "key1"},
     config_file : {PyNone, "config.json"}, prefix_name : CliPrefixes,
     document_path : DocPaths \cup {PyNone},
     index_name : {PyNone, "idx1"}, overwrite : {"no"},
     api_name : {PyNone, "extract_information"},
     query : Queries \cup {PyNone}]

\* The responses to draw: those of a call the run can make.
Draw(needed, responses) == IF needed THEN responses ELSE {NoResp}

Succeeded(net, api) == \E i \in 1..Len(net) : net[i].api = api /\ net[i].success = PyTrue

\* What the next run remembers of this one: its options, when every remote
\* call it made succeeded, an upload and an extraction among them.
RememberedRun(run) ==
    IF /\ run.op = "main"
       /\ \A i \in 1..Len(run.net) : run.net[i].success = PyTrue
       /\ Succeeded(run.net, "ez_upload_document")
       /\ Succeeded(run.net, "ez_extract_information")
    THEN [op |-> "main", prefix_name |-> run.prefix_name,
          document_path |-> run.document_path, index_name |-> run.index_name,
          api_name |-> run.api_name, query |-> run.query]
    ELSE NoCall

\* One run of the script, start to end.
RunMain ==
    \E a \in CliArgs :
      LET cleaned == RemoveJson(fs, a.prefix_name) IN
      \E ra \in Draw((Truthy(a.username) /\ Truthy(a.api_key))
                       \/ AUTH_FILE \in DOMAIN cleaned,
                     AuthResponses),
         rc \in Draw(Truthy(a.config_file), ConfigResponses),
         ru \in Draw(Truthy(a.document_path) /\ Truthy(a.index_name)
                       /\ DocExists(a.document_path), UploadResponses),
         re \in Draw(Truthy(a.api_name) /\ Truthy(a.query), ExtractResponses) :
        \E r \in {Main(fs, a, [auth |-> ra, config |-> rc, upload |-> ru,
                             extract |-> re])} :
            /\ fs' = r.fs
            /\ last' = [op |-> "main", prefix_name |-> a.prefix_name,
                        document_path |-> a.document_path,
                        index_name |-> a.index_name, api_name |-> a.api_name,
                        query |-> a.query, net |-> r.net, ended |-> r.ended]
            /\ prev' = RememberedRun(last)
            /\ UNCHANGED <<procs, writer>>

SpecCli == Init /\ [][RunMain]_vars

\* ------------------------------------- two invocations of the script at once

\* Both invocations are  --username user --api_key key1 --document_path <doc>
\* --index_name <idx>  with the default prefix; each statement of the script
\* that touches a file or the remote is one step.
Procs == {1, 2}
Other(p) == 3 - p
ConcPrefix == "EazyML"
ConcDump == DumpFile(ConcPrefix, UPLOAD_FILE)
ConcArgs(p) ==
    IF p = 1 THEN [document_path |-> "doc.pdf", index_name |-> "idx1"]
    ELSE [document_path |-> "other.pdf", index_name |-> "idx2"]

\* An invocation not started, or started anew: nothing called, read or written.
Fresh(run) ==
    [pc |-> "cleanup", run |-> run, token |-> PyNone, resp |-> NoResp,
     called |-> FALSE, wrote |-> FALSE, raced |-> FALSE,
     served |-> 0, out |-> Return(PyNone)]

\* Who wrote each file's present content, and from which response.
Stamp(p, resp) == [by |-> p, resp |-> resp]

Drop(f, names) == [x \in DOMAIN f \ names |-> f[x]]

\* os.system("rm -f " + prefix_name + "*.json")
StepCleanup(p) ==
    /\ procs[p].pc = "cleanup"
    /\ fs' = RemoveJson(fs, ConcPrefix)
    /\ writer' = Drop(writer, DOMAIN fs \ DOMAIN fs')
    /\ procs' = [procs EXCEPT ![p].pc = "auth"]
    /\ UNCHANGED <<last, prev>>

\* token = eazyml_auth(username, api_key, store_info=True); flow goes on
\* whether or not a token came back.
StepAuth(p) ==
    /\ procs[p].pc = "auth"
    /\ \E resp \in AuthResponses :
         \E r \in {EazymlAuth(fs, "user", "key1", PyNone, TRUE, resp)} :
            /\ fs' = r.fs
            /\ procs' = [procs EXCEPT ![p].pc = "upload_exists",
                                      ![p].token = r.out.value]
    /\ UNCHANGED <<last, prev, writer>>

\* eazyml_upload up to  if os.path.exists(dump_file):  the document exists.
StepUploadExists(p) ==
    /\ procs[p].pc = "upload_exists"
    /\ DocExists(ConcArgs(p).document_path)
    /\ IF FileExists(fs, ConcDump)
       THEN procs' = [procs EXCEPT ![p].pc = "upload_read"]
       ELSE procs' = [procs EXCEPT
                ![p].pc = "upload_call",
                ![p].raced = procs[Other(p)].pc \in
                                {"upload_call", "upload_open", "upload_write"}]
    /\ UNCHANGED <<fs, last, prev, writer>>

\* resp = json.load(open(dump_file)); index = resp["indexed"]; return index,
\* and flow's  if not index: return.
StepUploadRead(p) ==
    /\ procs[p].pc = "upload_read"
    /\ IF ~FileExists(fs, ConcDump)
       THEN /\ procs' = [procs EXCEPT ![p].pc = "done",
                                      ![p].out = Raise("FileNotFoundError")]
            /\ UNCHANGED last
       ELSE IF fs[ConcDump] = EmptyText
       THEN /\ procs' = [procs EXCEPT ![p].pc = "done",
                                      ![p].out = Raise("JSONDecodeError")]
            /\ UNCHANGED last
       ELSE /\ procs' = [procs EXCEPT
                  ![p].pc = "done",
                  ![p].served = writer[ConcDump].by,
                  ![p].resp = writer[ConcDump].resp,
                  ![p].out = Return(JsonLoad(fs[ConcDump]).indexed)]
            /\ last' = IF writer[ConcDump].by = Other(p)
                       THEN [last EXCEPT !.seen = @ \cup {"served_other"}]
                       ELSE last
    /\ UNCHANGED <<fs, prev, writer>>

\* resp = ez.ez_upload_document(token, document_path, index_name, options);
\* a failure ends the step here (index = False, or the KeyError of the print).
StepUploadCall(p) ==
    /\ procs[p].pc = "upload_call"
    /\ \E resp \in UploadResponses :
         IF IsSuccess(resp)
         THEN procs' = [procs EXCEPT ![p].pc = "upload_open",
                                     ![p].called = TRUE, ![p].resp = resp]
         ELSE procs' = [procs EXCEPT
                  ![p].pc = "done", ![p].called = TRUE,
                  ![p].out = IF "indexed" \in DOMAIN resp
                             THEN Return(PyFalse) ELSE Raise("KeyError")]
    /\ UNCHANGED <<fs, last, prev, writer>>

\* with open(dump_file, "w") as fw:  the file is there and empty.
StepUploadOpen(p) ==
    /\ procs[p].pc = "upload_open"
    /\ fs' = WriteFile(fs, ConcDump, EmptyText)
    /\ writer' = WriteFile(writer, ConcDump, Stamp(p, NoResp))
    /\ procs' = [procs EXCEPT ![p].pc = "upload_write"]
    /\ UNCHANGED <<last, prev>>

\* fw.write(json_obj) and the close; return index.
StepUploadWrite(p) ==
    /\ procs[p].pc = "upload_write"
    /\ fs' = WriteFile(fs, ConcDump, JsonDumps(procs[p].resp))
    /\ writer' = WriteFile(writer, ConcDump, Stamp(p, procs[p].resp))
    /\ procs' = [procs EXCEPT ![p].pc = "done", ![p].wrote = TRUE,
                              ![p].out = Return(procs[p].resp.indexed)]
    /\ last' = IF procs[Other(p)].wrote
                  /\ (procs[p].raced \/ procs[Other(p)].raced)
               THEN [last EXCEPT !.seen = @ \cup {"both_wrote"}]
               ELSE last
    /\ UNCHANGED prev

\* The script is started again.
StepRestart(p) ==
    /\ procs[p].pc = "done"
    /\ procs[p].run < MaxRuns
    /\ procs' = [procs EXCEPT ![p] = Fresh(procs[p].run + 1)]
    /\ UNCHANGED <<fs, last, prev, writer>>

InitConc ==
    /\ fs = NoFiles
    /\ writer = NoFiles
    /\ last = [op |-> "concurrent", seen |-> {}, net |-> <<>>]
    /\ prev = NoCall
    /\ procs = [p \in Procs |-> Fresh(1)]

NextConc ==
    \E p \in Procs :
        \/ StepCleanup(p)
        \/ StepAuth(p)
        \/ StepUploadExists(p)
        \/ StepUploadRead(p)
        \/ StepUploadCall(p)
        \/ StepUploadOpen(p)
        \/ StepUploadWrite(p)
        \/ StepRestart(p)

SpecConc == InitConc /\ [][NextConc]_vars

\* ------------------------------------------------------------------ claims

IsUpload == last.op = "eazyml_upload"
IsExtract == last.op = "eazyml_extract_information"
UploadDump == DumpFile(last.prefix_name, UPLOAD_FILE)
ExtractDump == DumpFile(last.prefix_name, EXTRACT_FILE)

\* C1 as stated: every call of eazyml_upload made while the upload-cache file
\* of its prefix exists returns the "indexed" value stored in the file, makes
\* no remote call and leaves the files unchanged, whatever document_path,
\* index_name and overwrite are.
C1_AsStated ==
    (IsUpload /\ UploadDump \in DOMAIN last.before)
        => /\ last.out = Return(JsonLoad(last.before[UploadDump]).indexed)
           /\ last.net = <<>>
           /\ fs = last.before

\* C1 amended: every call of eazyml_upload made with a document_path that
\* exists locally, while the upload-cache file of its prefix exists, returns
\* the "indexed" value stored in the file, makes no remote call and leaves the
\* files unchanged, whatever index_name and overwrite are.
C1_CachedUpload ==
    (IsUpload /\ UploadDump \in DOMAIN last.before
              /\ last.document_path \in ExistingDocs)
        => /\ last.out = Return(JsonLoad(last.before[UploadDump]).indexed)
           /\ last.net = <<>>
           /\ fs = last.before

C1_Witness ==
    /\ IsUpload
    /\ UploadDump \in DOMAIN last.before
    /\ last.document_path \in ExistingDocs
    /\ last.index_name = "idx2"
    /\ last.overwrite = "yes"
    /\ last.out = Return(PyTrue)

\* C2: a call of eazyml_upload whose document_path does not exist locally
\* returns None, makes no remote call and creates or changes no file, whether
\* or not the upload-cache file of the prefix exists.
C2_MissingDocument ==
    (IsUpload /\ last.document_path \notin ExistingDocs)
        => /\ last.out = Return(PyNone)
           /\ last.net = <<>>
           /\ fs = last.before

C2_Witness ==
    /\ IsUpload
    /\ last.document_path \notin ExistingDocs
    /\ UploadDump \in DOMAIN last.before
    /\ last.out = Return(PyNone)

\* C3: a call of eazyml_extract_information with api_name
\* "extract_information" and no extract-cache file present, whose remote
\* response has success other than True, returns (None, None) and leaves the
\* extract-cache file of the prefix absent.
C3_FailedExtraction ==
    (IsExtract /\ last.api_name = "extract_information"
               /\ ExtractDump \notin DOMAIN last.before
               /\ last.resp.success # PyTrue)
        => /\ last.out = Return(<<PyNone, NoneObj>>)
           /\ ExtractDump \notin DOMAIN fs

C3_Witness ==
    /\ IsExtract
    /\ last.api_name = "extract_information"
    /\ ExtractDump \notin DOMAIN last.before
    /\ Len(last.net) = 1
    /\ last.net[1].success = PyFalse
    /\ last.out = Return(<<PyNone, NoneObj>>)

\* The value a call serving response R from the cache yields.
Yields(op, R) ==
    IF op = "eazyml_upload" THEN Return(R.indexed) ELSE Return(<<R.answer, R>>)

C7_AsStated ==
    (IsUpload /\ last.net # <<>>)
        => IF last.resp.success = PyTrue
           THEN /\ UploadDump \in DOMAIN fs
                /\ JsonLoad(fs[UploadDump]) = last.resp
                /\ last.out = Return(last.resp.indexed)
           ELSE /\ last.out = Return(PyFalse)
                /\ fs = last.before

\* C4: a call of eazyml_auth whose response is a success returns the
\* response's token, and with store_info the auth file then holds exactly
\* {username, api_key, password} as passed; without store_info, or on a
\* failure, the files are unchanged, and a failure returns None.
C4_Auth ==
    (last.op = "eazyml_auth")
        => IF last.resp.success = PyTrue
           THEN /\ last.out = Return(last.resp.token)
                /\ IF last.store_info
                   THEN /\ AUTH_FILE \in DOMAIN fs
                        /\ JsonLoad(fs[AUTH_FILE]) =
                               [username |-> last.username,
                                api_key |-> last.api_key,
                                password |-> last.password]
                   ELSE fs = last.before
           ELSE /\ last.out = Return(PyNone)
                /\ fs = last.before

C4_Witness ==
    /\ last.op = "eazyml_auth"
    /\ last.resp.success = PyTrue
    /\ last.store_info
    /\ last.password = "pw"
    /\ AUTH_FILE \in DOMAIN last.before
    /\ fs # last.before
    /\ last.out = Return("tok1")

IsMain == last.op = "main"

\* C6: in flow, after a remote call has answered success other than True, no
\* further remote call is made in that invocation; in particular none after
\* a failed authentication.
C6_AsStated ==
    IsMain => \A i, j \in 1..Len(last.net) : i < j => last.net[i].success = PyTrue

AuthSucceeded == Len(last.net) > 0 /\ last.net[1] = AuthCall("user", "api_key", [success |-> PyTrue])

\* C8: when the script is run twice in sequence with the same prefix,
\* document and query and the first run's upload and extraction succeeded,
\* the second run makes no ez_upload_document and no ez_extract_information
\* call.  (Stated for a second run given the same options, no
\* remote call of either run failing.)
C8_AsStated ==
    (/\ IsMain /\ prev # NoCall
     /\ \A i \in 1..Len(last.net) : last.net[i].success = PyTrue
     /\ last.prefix_name = prev.prefix_name
     /\ last.document_path = prev.document_path
     /\ last.index_name = prev.index_name
     /\ last.api_name = prev.api_name
     /\ last.query = prev.query)
        => \A i \in 1..Len(last.net) :
               last.net[i].api \notin {"ez_upload_document", "ez_extract_information"}

\* C10: flow never calls the extraction with a missing index_name: no
\* ez_extract_information call carries an index_name that is None or empty.
\* (Stated for a run whose authentication succeeds and that is given no
\* document_path.)
C10_AsStated ==
    (IsMain /\ AuthSucceeded /\ last.document_path = PyNone)
        => \A i \in 1..Len(last.net) :
                 last.net[i].api = "ez_extract_information"
                     => Truthy(last.net[i].index_name)

\* C9: two invocations on the same prefix race.  Whenever an invocation's
\* upload step returns from the cache, the file it read was written by the
\* other invocation, from the response to the other's document and index, and
\* the invocation made no remote upload call of its own.
C9_Race ==
    (last.op = "concurrent") =>
        \A p \in Procs :
            procs[p].served # 0
                => /\ procs[p].served = Other(p)
                   /\ ~procs[p].called
                   /\ ~procs[p].wrote
                   /\ procs[p].out = Return(procs[p].resp.indexed)

\* Both interleavings have happened: an upload step served from the other
\* invocation's file, and two overlapping invocations that both called the
\* remote and both wrote the file.
C9_Witness ==
    /\ last.op = "concurrent"
    /\ last.seen = {"served_other", "both_wrote"}
    /\ ConcArgs(1).document_path # ConcArgs(2).document_path
    /\ ConcArgs(1).index_name # ConcArgs(2).index_name
    /\ \E p \in Procs : /\ procs[p].served = Other(p)
                         /\ procs[p].out = Return(PyTrue)

====
